---- MODULE Spec2Model ----
(***************************************************************************)
(* Model of composable_pipeline/video.py: the PSVideo facade driving a     *)
(* FileDisplayPort / WebcamDisplayPort stream (VideoFile lifecycle), the   *)
(* threading.Lock used as loop-exit handle, and the threaded copy loops    *)
(* _tievdma / _tienovdma with VideoFile.readframe's retry loop.            *)
(*                                                                         *)
(* One caller thread issues PSVideo.start/stop/pause; every statement that *)
(* touches state shared with the worker is a step of its own.  Python      *)
(* None/True/False attribute values are the strings "None"/"True"/"False". *)
(* Thread creation (start_new_thread) is taken to succeed.                 *)
(***************************************************************************)
EXTENDS Naturals, FiniteSets, Sequences

\* Program constant: range(5) in VideoFile.readframe.
RetryLimit == 5

\* Model bounds.
MaxWorkers == 2     \* thread slots (the code may create any number)
MaxFail == 5        \* transient read failures the Source reports per session
FileLen == 3        \* frames in the video file before read() hits its end

VARIABLES
    vdma,       \* PSVideo._vdma / FileDisplayPort.vdma is not None
    started,    \* PSVideo._started
    pause,      \* PSVideo._pause
    running,    \* VideoFile._running
    videoIn,    \* VideoFile._videoIn is a capture handle (not None)
    lock,       \* VideoFile._thread.locked()
    dpOn,       \* DisplayPort configured and not stopped
    vdmaOn,     \* vdma read/write channels started
    cpc,        \* caller thread: position inside the facade call
    tieFrom,    \* which call site of tie() in PSVideo.start is active
    workers,    \* worker threads: position and readframe locals
    nSrcConf,   \* VideoFile._configure calls since the last full start
                \* (counted up to MaxFail + 1)
    nDpConf,    \* DisplayPort.configure calls since the last full start
    nFail,      \* failed reads since the last full start
    opSpawn,    \* threads created by the current/last facade call
    hist,       \* last facade call and the pipeline state it was made in
    callerErr,  \* exception raised to the caller by the last facade call
    srcPos,     \* frames the open capture has delivered (its read position)
    sinkLog,    \* frames written to the DisplayPort since the last full
                \* start, kept as long as no read of the session has failed
    stage,      \* frames inside the vdma, written and not yet read back
    nSrcRel,    \* VideoCapture.release calls since the last full start
    nDpStop,    \* DisplayPort.stop calls since the last full start
    hdmi,       \* an HDMIVideo object and the devices it drives
    ct          \* the last stream/facade constructor call and its outcome

vars == <<vdma, started, pause, running, videoIn, lock, dpOn, vdmaOn, cpc,
          tieFrom, workers, nSrcConf, nDpConf, nFail, opSpawn, hist, callerErr,
          srcPos, sinkLog, stage, nSrcRel, nDpStop, hdmi, ct>>

\* What the facade and stream objects hold (everything but the call record).
engine == <<vdma, started, pause, running, videoIn, lock, dpOn, vdmaOn, cpc,
            tieFrom, workers, nSrcConf, nDpConf, nFail, srcPos, sinkLog, stage,
            nSrcRel, nDpStop>>

WorkerIds == 1..MaxWorkers

\* Python truthiness of an attribute holding None, True or False.
Truthy(x) == x = "True"

\* Idle / Running / Paused / Stopped as encoded by _started and _pause.
PipelineState ==
    IF started = "None" THEN "Idle"
    ELSE IF started = "False" THEN "Stopped"
    ELSE IF Truthy(pause) THEN "Paused"
    ELSE "Running"

\* A thread that has been created and has not returned or died.
Alive(w) == workers[w].pc \notin {"none", "done", "fatal", "crash"}

AliveWorkers == {w \in WorkerIds : Alive(w)}

FreeSlots == {w \in WorkerIds : workers[w].pc \in {"none", "done"}}

NoWorker == [pc |-> "none", i |-> 0, rc |-> 0, f |-> 0, d |-> 0, calls |-> <<>>]

\* A thread just created by start_new_thread, at the head of its loop.
NewWorker == [pc |-> "head", i |-> 0, rc |-> 0, f |-> 0, d |-> 0, calls |-> <<>>]

\* No HDMIVideo object has been constructed.
NoHdmi == [obj |-> "none", dev |-> "none", source |-> "none",
           source_in |-> "none", started |-> "None", inMode |-> "none",
           outMode |-> "none", tied |-> FALSE]

\* No constructor has been called.
NoCtor == [cls |-> "none", arg |-> "none", result |-> "none"]

Init ==
    /\ vdma \in BOOLEAN
    /\ started = "None"
    /\ pause = "None"
    /\ running = "None"
    /\ videoIn = FALSE
    /\ lock = FALSE
    /\ dpOn = FALSE
    /\ vdmaOn = FALSE
    /\ cpc = "idle"
    /\ tieFrom = "first"
    /\ workers = [w \in WorkerIds |-> NoWorker]
    /\ nSrcConf = 0
    /\ nDpConf = 0
    /\ nFail = 0
    /\ opSpawn = 0
    /\ hist = [op |-> "none", pre |-> "Idle"]
    /\ callerErr = "none"
    /\ srcPos = 0
    /\ sinkLog = <<>>
    /\ stage = <<>>
    /\ nSrcRel = 0
    /\ nDpStop = 0
    /\ hdmi = NoHdmi
    /\ ct = NoCtor

----------------------------------------------------------------------------
(* PSVideo.start                                                           *)

\* Variant of PSVideo_start without the "if not self._started" guard: every
\* call configures and ties again.
PSVideo_start_Unguarded ==
    /\ cpc = "idle"
    /\ hist' = [op |-> "start", pre |-> PipelineState]
    /\ opSpawn' = 0
    /\ callerErr' = "none"
    /\ cpc' = "dp_configure"
    /\ tieFrom' = "first"
    /\ IF ~Truthy(started)
       THEN /\ nSrcConf' = 0 /\ nDpConf' = 0 /\ nFail' = 0
            /\ nSrcRel' = 0 /\ nDpStop' = 0 /\ sinkLog' = <<>>
       ELSE UNCHANGED <<nSrcConf, nDpConf, nFail, nSrcRel, nDpStop, sinkLog>>
    /\ UNCHANGED <<vdma, started, pause, running, videoIn, lock, dpOn, vdmaOn,
                   workers>>
    /\ UNCHANGED <<stage, hdmi, ct, srcPos>>

\* Entry: "if not self._started" / "if self._pause" decide what is done.
PSVideo_start ==
    /\ cpc = "idle"
    /\ hist' = [op |-> "start", pre |-> PipelineState]
    /\ opSpawn' = 0
    /\ callerErr' = "none"
    /\ IF ~Truthy(started)
       THEN /\ cpc' = "dp_configure"
            /\ tieFrom' = "first"
            /\ nSrcConf' = 0 /\ nDpConf' = 0 /\ nFail' = 0
            /\ nSrcRel' = 0 /\ nDpStop' = 0 /\ sinkLog' = <<>>
       ELSE IF Truthy(pause)
       THEN /\ cpc' = "tie"
            /\ tieFrom' = "resume"
            /\ UNCHANGED <<nSrcConf, nDpConf, nFail, nSrcRel, nDpStop, sinkLog>>
       ELSE /\ cpc' = "idle"
            /\ UNCHANGED <<tieFrom, nSrcConf, nDpConf, nFail, nSrcRel, nDpStop,
                           sinkLog>>
    /\ UNCHANGED <<vdma, started, pause, running, videoIn, lock, dpOn, vdmaOn,
                   workers>>
    /\ UNCHANGED <<stage, hdmi, ct, srcPos>>

\* self._dp.configure(self._mode, PIXEL_RGB)
DisplayPort_configure ==
    /\ cpc = "dp_configure"
    /\ dpOn' = TRUE
    /\ nDpConf' = nDpConf + 1
    /\ cpc' = "src_start"
    /\ UNCHANGED <<vdma, started, pause, running, videoIn, lock, vdmaOn,
                   tieFrom, workers, nSrcConf, nFail, opSpawn, hist, callerErr>>
    /\ UNCHANGED <<srcPos, sinkLog, stage, nSrcRel, nDpStop, hdmi, ct>>

\* self._source.start(): _configure() opens the capture, then the vdma
\* channels are started when a vdma is present.
FileDisplayPort_start ==
    /\ cpc = "src_start"
    /\ videoIn' = TRUE
    /\ srcPos' = 0
    /\ nSrcConf' = nSrcConf + 1
    /\ vdmaOn' = IF vdma THEN TRUE ELSE vdmaOn
    /\ cpc' = "tie"
    /\ UNCHANGED <<vdma, started, pause, running, lock, dpOn, tieFrom,
                   workers, nDpConf, nFail, opSpawn, hist, callerErr>>
    /\ UNCHANGED <<sinkLog, stage, nSrcRel, nDpStop, hdmi, ct>>

\* Variant of tie_check without the "if not self._videoIn" check.
tie_check_NoCheck ==
    /\ cpc = "tie"
    /\ cpc' = "tie_acquire"
    /\ UNCHANGED <<vdma, started, pause, running, videoIn, lock, dpOn, vdmaOn,
                   tieFrom, workers, nSrcConf, nDpConf, nFail, opSpawn, hist,
                   callerErr>>
    /\ UNCHANGED <<srcPos, sinkLog, stage, nSrcRel, nDpStop, hdmi, ct>>

\* tie(): "if not self._videoIn: raise SystemError"
tie_check ==
    /\ cpc = "tie"
    /\ IF ~videoIn
       THEN cpc' = "idle" /\ callerErr' = "SystemError"
       ELSE cpc' = "tie_acquire" /\ UNCHANGED callerErr
    /\ UNCHANGED <<vdma, started, pause, running, videoIn, lock, dpOn, vdmaOn,
                   tieFrom, workers, nSrcConf, nDpConf, nFail, opSpawn, hist>>
    /\ UNCHANGED <<srcPos, sinkLog, stage, nSrcRel, nDpStop, hdmi, ct>>

\* Variant of tie_acquire that does not block (acquire(False)).
tie_acquire_NoBlock ==
    /\ cpc = "tie_acquire"
    /\ lock' = TRUE
    /\ cpc' = "tie_running"
    /\ UNCHANGED <<vdma, started, pause, running, videoIn, dpOn, vdmaOn,
                   tieFrom, workers, nSrcConf, nDpConf, nFail, opSpawn, hist,
                   callerErr>>
    /\ UNCHANGED <<srcPos, sinkLog, stage, nSrcRel, nDpStop, hdmi, ct>>

\* self._thread.acquire(): blocks while the lock is held.
tie_acquire ==
    /\ cpc = "tie_acquire"
    /\ ~lock
    /\ lock' = TRUE
    /\ cpc' = "tie_running"
    /\ UNCHANGED <<vdma, started, pause, running, videoIn, dpOn, vdmaOn,
                   tieFrom, workers, nSrcConf, nDpConf, nFail, opSpawn, hist,
                   callerErr>>
    /\ UNCHANGED <<srcPos, sinkLog, stage, nSrcRel, nDpStop, hdmi, ct>>

\* self._running = True
tie_running ==
    /\ cpc = "tie_running"
    /\ running' = "True"
    /\ cpc' = "tie_spawn"
    /\ UNCHANGED <<vdma, started, pause, videoIn, lock, dpOn, vdmaOn, tieFrom,
                   workers, nSrcConf, nDpConf, nFail, opSpawn, hist, callerErr>>
    /\ UNCHANGED <<srcPos, sinkLog, stage, nSrcRel, nDpStop, hdmi, ct>>

\* start_new_thread(tie, ()): a new thread at the head of its loop.
tie_spawn ==
    /\ cpc = "tie_spawn"
    /\ FreeSlots # {}
    /\ LET w == CHOOSE x \in FreeSlots : \A y \in FreeSlots : x <= y
       IN workers' = [workers EXCEPT ![w] = NewWorker]
    /\ opSpawn' = opSpawn + 1
    /\ cpc' = "tie_ret"
    /\ UNCHANGED <<vdma, started, pause, running, videoIn, lock, dpOn, vdmaOn,
                   tieFrom, nSrcConf, nDpConf, nFail, hist, callerErr>>
    /\ UNCHANGED <<srcPos, sinkLog, stage, nSrcRel, nDpStop, hdmi, ct>>

\* Variant of PSVideo_start_ret whose resume path configures the Source
\* again before returning.
PSVideo_start_ret_Reconfigure ==
    /\ cpc = "tie_ret"
    /\ IF tieFrom = "first"
       THEN /\ started' = "True"
            /\ IF Truthy(pause)
               THEN cpc' = "tie" /\ tieFrom' = "resume"
               ELSE cpc' = "idle" /\ UNCHANGED tieFrom
            /\ UNCHANGED <<pause, nSrcConf>>
       ELSE IF tieFrom = "resume"
       THEN /\ pause' = "None"
            /\ nSrcConf' = nSrcConf + 1
            /\ cpc' = "idle"
            /\ UNCHANGED <<started, tieFrom>>
       ELSE /\ cpc' = "idle"
            /\ UNCHANGED <<started, pause, tieFrom, nSrcConf>>
    /\ UNCHANGED <<vdma, running, videoIn, lock, dpOn, vdmaOn, workers,
                   nDpConf, nFail, opSpawn, hist, callerErr>>
    /\ UNCHANGED <<srcPos, sinkLog, stage, nSrcRel, nDpStop, hdmi, ct>>

\* Back in PSVideo.start after tie(): "self._started = True" followed by
\* "if self._pause" (first call site), or "self._pause = None" (second).
\* A tie() called on the stream itself just returns.
PSVideo_start_ret ==
    /\ cpc = "tie_ret"
    /\ IF tieFrom = "first"
       THEN /\ started' = "True"
            /\ IF Truthy(pause)
               THEN cpc' = "tie" /\ tieFrom' = "resume"
               ELSE cpc' = "idle" /\ UNCHANGED tieFrom
            /\ UNCHANGED pause
       ELSE IF tieFrom = "resume"
       THEN /\ pause' = "None"
            /\ cpc' = "idle"
            /\ UNCHANGED <<started, tieFrom>>
       ELSE /\ cpc' = "idle"
            /\ UNCHANGED <<started, pause, tieFrom>>
    /\ UNCHANGED <<vdma, running, videoIn, lock, dpOn, vdmaOn, workers,
                   nSrcConf, nDpConf, nFail, opSpawn, hist, callerErr>>
    /\ UNCHANGED <<srcPos, sinkLog, stage, nSrcRel, nDpStop, hdmi, ct>>

----------------------------------------------------------------------------
(* PSVideo.stop                                                            *)

\* Variant of PSVideo_stop without the "if self._started" guard.
PSVideo_stop_Unguarded ==
    /\ cpc = "idle"
    /\ hist' = [op |-> "stop", pre |-> PipelineState]
    /\ opSpawn' = 0
    /\ callerErr' = "none"
    /\ cpc' = "src_stop"
    /\ UNCHANGED <<vdma, started, pause, running, videoIn, lock, dpOn, vdmaOn,
                   tieFrom, workers, nSrcConf, nDpConf, nFail>>
    /\ UNCHANGED <<srcPos, sinkLog, stage, nSrcRel, nDpStop, hdmi, ct>>

\* Entry: "if self._started"
PSVideo_stop ==
    /\ cpc = "idle"
    /\ hist' = [op |-> "stop", pre |-> PipelineState]
    /\ opSpawn' = 0
    /\ callerErr' = "none"
    /\ cpc' = IF Truthy(started) THEN "src_stop" ELSE "idle"
    /\ UNCHANGED <<vdma, started, pause, running, videoIn, lock, dpOn, vdmaOn,
                   tieFrom, workers, nSrcConf, nDpConf, nFail>>
    /\ UNCHANGED <<srcPos, sinkLog, stage, nSrcRel, nDpStop, hdmi, ct>>

\* VideoFile.stop: "if self._videoIn: self._running = False"
VideoFile_stop ==
    /\ cpc = "src_stop"
    /\ IF videoIn
       THEN running' = "False" /\ cpc' = "stop_wait"
       ELSE UNCHANGED running /\ cpc' = "vdma_stop"
    /\ UNCHANGED <<vdma, started, pause, videoIn, lock, dpOn, vdmaOn, tieFrom,
                   workers, nSrcConf, nDpConf, nFail, opSpawn, hist, callerErr>>
    /\ UNCHANGED <<srcPos, sinkLog, stage, nSrcRel, nDpStop, hdmi, ct>>

\* Variant of VideoFile_stop_wait that does not poll the lock.
VideoFile_stop_wait_NoWait ==
    /\ cpc = "stop_wait"
    /\ cpc' = "src_release"
    /\ UNCHANGED <<vdma, started, pause, running, videoIn, lock, dpOn, vdmaOn,
                   tieFrom, workers, nSrcConf, nDpConf, nFail, opSpawn, hist,
                   callerErr>>
    /\ UNCHANGED <<srcPos, sinkLog, stage, nSrcRel, nDpStop, hdmi, ct>>

\* "while self._thread.locked(): sleep(0.05)": leaves once the lock is free.
VideoFile_stop_wait ==
    /\ cpc = "stop_wait"
    /\ ~lock
    /\ cpc' = "src_release"
    /\ UNCHANGED <<vdma, started, pause, running, videoIn, lock, dpOn, vdmaOn,
                   tieFrom, workers, nSrcConf, nDpConf, nFail, opSpawn, hist,
                   callerErr>>
    /\ UNCHANGED <<srcPos, sinkLog, stage, nSrcRel, nDpStop, hdmi, ct>>

\* self._videoIn.release(); self._videoIn = None
VideoFile_stop_release ==
    /\ cpc = "src_release"
    /\ videoIn' = FALSE
    /\ nSrcRel' = nSrcRel + 1
    /\ cpc' = "vdma_stop"
    /\ UNCHANGED <<vdma, started, pause, running, lock, dpOn, vdmaOn, tieFrom,
                   workers, nSrcConf, nDpConf, nFail, opSpawn, hist, callerErr>>
    /\ UNCHANGED <<srcPos, sinkLog, stage, nDpStop, hdmi, ct>>

\* FileDisplayPort.stop: "if self.vdma:" stop both channels.
FileDisplayPort_stop ==
    /\ cpc = "vdma_stop"
    /\ vdmaOn' = IF vdma THEN FALSE ELSE vdmaOn
    /\ cpc' = "dp_stop"
    /\ UNCHANGED <<vdma, started, pause, running, videoIn, lock, dpOn, tieFrom,
                   workers, nSrcConf, nDpConf, nFail, opSpawn, hist, callerErr>>
    /\ UNCHANGED <<srcPos, sinkLog, stage, nSrcRel, nDpStop, hdmi, ct>>

\* self._dp.stop(); self._started = False
PSVideo_stop_ret ==
    /\ cpc = "dp_stop"
    /\ dpOn' = FALSE
    /\ nDpStop' = nDpStop + 1
    /\ started' = "False"
    /\ cpc' = "idle"
    /\ UNCHANGED <<vdma, pause, running, videoIn, lock, vdmaOn, tieFrom,
                   workers, nSrcConf, nDpConf, nFail, opSpawn, hist, callerErr>>
    /\ UNCHANGED <<srcPos, sinkLog, stage, nSrcRel, hdmi, ct>>

----------------------------------------------------------------------------
(* PSVideo.pause                                                           *)

\* Entry: "if self._started and not self._pause"
PSVideo_pause ==
    /\ cpc = "idle"
    /\ hist' = [op |-> "pause", pre |-> PipelineState]
    /\ opSpawn' = 0
    /\ callerErr' = "none"
    /\ cpc' = IF Truthy(started) /\ ~Truthy(pause) THEN "src_pause" ELSE "idle"
    /\ UNCHANGED <<vdma, started, pause, running, videoIn, lock, dpOn, vdmaOn,
                   tieFrom, workers, nSrcConf, nDpConf, nFail>>
    /\ UNCHANGED <<srcPos, sinkLog, stage, nSrcRel, nDpStop, hdmi, ct>>

\* Variant of VideoFile_pause that leaves the running flag set.
VideoFile_pause_NoClear ==
    /\ cpc = "src_pause"
    /\ IF ~videoIn
       THEN cpc' = "idle" /\ callerErr' = "SystemError"
       ELSE /\ cpc' = IF hist.op = "pause" THEN "set_pause" ELSE "idle"
            /\ UNCHANGED callerErr
    /\ UNCHANGED <<vdma, started, pause, running, videoIn, lock, dpOn, vdmaOn,
                   tieFrom, workers, nSrcConf, nDpConf, nFail, opSpawn, hist>>
    /\ UNCHANGED <<srcPos, sinkLog, stage, nSrcRel, nDpStop, hdmi, ct>>

\* Variant of VideoFile_pause without the "if not self._videoIn" check.
VideoFile_pause_NoCheck ==
    /\ cpc = "src_pause"
    /\ running' = IF Truthy(running) THEN "False" ELSE running
    /\ cpc' = IF hist.op = "pause" THEN "set_pause" ELSE "idle"
    /\ UNCHANGED <<vdma, started, pause, videoIn, lock, dpOn, vdmaOn, tieFrom,
                   workers, nSrcConf, nDpConf, nFail, opSpawn, hist, callerErr>>
    /\ UNCHANGED <<srcPos, sinkLog, stage, nSrcRel, nDpStop, hdmi, ct>>

\* VideoFile.pause: SystemError without a capture handle, else
\* "if self._running: self._running = False".  It returns at once, to
\* PSVideo.pause or to the application that called it on the stream.
VideoFile_pause ==
    /\ cpc = "src_pause"
    /\ IF ~videoIn
       THEN /\ cpc' = "idle"
            /\ callerErr' = "SystemError"
            /\ UNCHANGED running
       ELSE /\ running' = IF Truthy(running) THEN "False" ELSE running
            /\ cpc' = IF hist.op = "pause" THEN "set_pause" ELSE "idle"
            /\ UNCHANGED callerErr
    /\ UNCHANGED <<vdma, started, pause, videoIn, lock, dpOn, vdmaOn, tieFrom,
                   workers, nSrcConf, nDpConf, nFail, opSpawn, hist>>
    /\ UNCHANGED <<srcPos, sinkLog, stage, nSrcRel, nDpStop, hdmi, ct>>

\* self._pause = True
PSVideo_pause_ret ==
    /\ cpc = "set_pause"
    /\ pause' = "True"
    /\ cpc' = "idle"
    /\ UNCHANGED <<vdma, started, running, videoIn, lock, dpOn, vdmaOn,
                   tieFrom, workers, nSrcConf, nDpConf, nFail, opSpawn, hist,
                   callerErr>>
    /\ UNCHANGED <<srcPos, sinkLog, stage, nSrcRel, nDpStop, hdmi, ct>>

----------------------------------------------------------------------------
(* The threaded copy loop: _tievdma / _tienovdma with readframe inlined    *)

SetW(w, r) == workers' = [workers EXCEPT ![w] = r]

\* "while self._running:" sampled once per iteration; the frame buffer
\* allocation (newframe) opens the body and readframe's loop starts at 0.
W_head(w) ==
    /\ workers[w].pc = "head"
    /\ IF Truthy(running)
       THEN SetW(w, [NewWorker EXCEPT !.pc = "read"])
       ELSE SetW(w, [NewWorker EXCEPT !.pc = "release"])
    /\ UNCHANGED <<vdma, started, pause, running, videoIn, lock, dpOn, vdmaOn,
                   cpc, tieFrom, nSrcConf, nDpConf, nFail, opSpawn, hist,
                   callerErr>>
    /\ UNCHANGED <<srcPos, sinkLog, stage, nSrcRel, nDpStop, hdmi, ct>>

\* readframe: "ret, frame = self._videoIn.read()" inside "for _ in range(5)".
\* The Source decides ret; at the end of the file ret is False.  A frame is
\* its number in the file; it goes into fpgaframe (vdma) or dpframe.  Without
\* a handle the attribute access fails and the thread dies.
W_read(w) ==
    /\ workers[w].pc = "read"
    /\ IF ~videoIn
       THEN /\ SetW(w, [workers[w] EXCEPT !.pc = "crash"])
            /\ UNCHANGED <<nFail, srcPos, sinkLog>>
       ELSE \E ret \in BOOLEAN :
            /\ ret => srcPos < FileLen
            /\ ~ret => (srcPos = FileLen \/ nFail < MaxFail)
            /\ IF ret
               THEN /\ SetW(w, [workers[w] EXCEPT
                                  !.pc = IF vdma THEN "vdma_write" ELSE "dp_write",
                                  !.i = @ + 1,
                                  !.f = IF vdma THEN srcPos + 1 ELSE 0,
                                  !.d = IF vdma THEN 0 ELSE srcPos + 1,
                                  !.calls = Append(@, "src.read")])
                    /\ srcPos' = srcPos + 1
                    /\ UNCHANGED <<nFail, sinkLog>>
               ELSE /\ SetW(w, [workers[w] EXCEPT
                                  !.pc = "configure",
                                  !.i = @ + 1,
                                  !.calls = Append(@, "src.read")])
                    /\ nFail' = IF nFail < MaxFail THEN nFail + 1 ELSE nFail
                    /\ sinkLog' = <<>>
                    /\ UNCHANGED srcPos
    /\ UNCHANGED <<vdma, started, pause, running, videoIn, lock, dpOn, vdmaOn,
                   cpc, tieFrom, nSrcConf, nDpConf, opSpawn, hist, callerErr>>
    /\ UNCHANGED <<stage, nSrcRel, nDpStop, hdmi, ct>>

\* Variant of W_configure whose retry loop has no bound (while True).
W_configure_NoLimit(w) ==
    /\ workers[w].pc = "configure"
    /\ videoIn' = TRUE
    /\ srcPos' = 0
    /\ nSrcConf' = IF nSrcConf <= MaxFail THEN nSrcConf + 1 ELSE nSrcConf
    /\ SetW(w, [workers[w] EXCEPT !.pc = "read", !.rc = @ + 1,
                                  !.calls = Append(@, "src.configure")])
    /\ UNCHANGED <<vdma, started, pause, running, lock, dpOn, vdmaOn, cpc,
                   tieFrom, nDpConf, nFail, opSpawn, hist, callerErr>>
    /\ UNCHANGED <<sinkLog, stage, nSrcRel, nDpStop, hdmi, ct>>

\* readframe: "if not ret: self._configure()" opens the file anew (at its
\* first frame) over the old handle, then the next round of the for loop,
\* or past its end "raise RuntimeError": neither copy loop handles it
\* (_tievdma re-raises), so the thread dies there.
W_configure(w) ==
    /\ workers[w].pc = "configure"
    /\ videoIn' = TRUE
    /\ srcPos' = 0
    /\ nSrcConf' = IF nSrcConf <= MaxFail THEN nSrcConf + 1 ELSE nSrcConf
    /\ SetW(w, [workers[w] EXCEPT
                  !.pc = IF workers[w].i < RetryLimit THEN "read" ELSE "fatal",
                  !.rc = @ + 1,
                  !.calls = Append(@, "src.configure")])
    /\ UNCHANGED <<vdma, started, pause, running, lock, dpOn, vdmaOn, cpc,
                   tieFrom, nDpConf, nFail, opSpawn, hist, callerErr>>
    /\ UNCHANGED <<sinkLog, stage, nSrcRel, nDpStop, hdmi, ct>>

\* _tievdma: self.vdma.writechannel.writeframe(fpgaframe)
W_vdma_write(w) ==
    /\ workers[w].pc = "vdma_write"
    /\ stage' = Append(stage, workers[w].f)
    /\ SetW(w, [workers[w] EXCEPT !.pc = "vdma_read", !.f = 0,
                                  !.calls = Append(@, "vdma.write")])
    /\ UNCHANGED <<vdma, started, pause, running, videoIn, lock, dpOn, vdmaOn,
                   cpc, tieFrom, nSrcConf, nDpConf, nFail, opSpawn, hist,
                   callerErr>>
    /\ UNCHANGED <<srcPos, sinkLog, nSrcRel, nDpStop, hdmi, ct>>

\* Variant of W_vdma_read that takes the frame written instead of reading
\* the read channel (one buffer for both sides).
W_vdma_read_Conflate(w) ==
    /\ workers[w].pc = "vdma_read"
    /\ SetW(w, [workers[w] EXCEPT !.pc = "dp_write",
                                  !.d = stage[Len(stage)]])
    /\ UNCHANGED <<vdma, started, pause, running, videoIn, lock, dpOn, vdmaOn,
                   cpc, tieFrom, nSrcConf, nDpConf, nFail, opSpawn, hist,
                   callerErr>>
    /\ UNCHANGED <<srcPos, sinkLog, stage, nSrcRel, nDpStop, hdmi, ct>>

\* _tievdma: dpframe[:] = self.vdma.readchannel.readframe()
\* The stage hands out its frames in the order they were written (0: none).
W_vdma_read(w) ==
    /\ workers[w].pc = "vdma_read"
    /\ IF stage = <<>>
       THEN /\ SetW(w, [workers[w] EXCEPT !.pc = "dp_write", !.d = 0,
                                          !.calls = Append(@, "vdma.read")])
            /\ UNCHANGED stage
       ELSE /\ SetW(w, [workers[w] EXCEPT !.pc = "dp_write", !.d = Head(stage),
                                          !.calls = Append(@, "vdma.read")])
            /\ stage' = Tail(stage)
    /\ UNCHANGED <<vdma, started, pause, running, videoIn, lock, dpOn, vdmaOn,
                   cpc, tieFrom, nSrcConf, nDpConf, nFail, opSpawn, hist,
                   callerErr>>
    /\ UNCHANGED <<srcPos, sinkLog, nSrcRel, nDpStop, hdmi, ct>>

\* Variant of W_dp_write that writes the frame twice.
W_dp_write_Twice(w) ==
    /\ workers[w].pc = "dp_write"
    /\ sinkLog' = IF nFail = 0
                  THEN Append(Append(sinkLog, workers[w].d), workers[w].d)
                  ELSE sinkLog
    /\ SetW(w, [workers[w] EXCEPT !.pc = "head", !.d = 0,
                                  !.calls = Append(@, "dp.write")])
    /\ UNCHANGED <<vdma, started, pause, running, videoIn, lock, dpOn, vdmaOn,
                   cpc, tieFrom, nSrcConf, nDpConf, nFail, opSpawn, hist,
                   callerErr>>
    /\ UNCHANGED <<srcPos, stage, nSrcRel, nDpStop, hdmi, ct>>

\* Variant of W_dp_write that samples the running flag again and gives up
\* the frame in hand when it is cleared.
W_dp_write_FlagCheck(w) ==
    /\ workers[w].pc = "dp_write"
    /\ IF Truthy(running)
       THEN /\ sinkLog' = IF nFail = 0 THEN Append(sinkLog, workers[w].d)
                          ELSE sinkLog
            /\ SetW(w, [workers[w] EXCEPT !.pc = "head", !.d = 0,
                                          !.calls = Append(@, "dp.write")])
       ELSE /\ UNCHANGED sinkLog
            /\ SetW(w, [workers[w] EXCEPT !.pc = "release"])
    /\ UNCHANGED <<vdma, started, pause, running, videoIn, lock, dpOn, vdmaOn,
                   cpc, tieFrom, nSrcConf, nDpConf, nFail, opSpawn, hist,
                   callerErr>>
    /\ UNCHANGED <<srcPos, stage, nSrcRel, nDpStop, hdmi, ct>>

\* self._dp.writeframe(dpframe), then back to the loop head.
W_dp_write(w) ==
    /\ workers[w].pc = "dp_write"
    /\ sinkLog' = IF nFail = 0 THEN Append(sinkLog, workers[w].d) ELSE sinkLog
    /\ SetW(w, [workers[w] EXCEPT !.pc = "head", !.d = 0,
                                  !.calls = Append(@, "dp.write")])
    /\ UNCHANGED <<vdma, started, pause, running, videoIn, lock, dpOn, vdmaOn,
                   cpc, tieFrom, nSrcConf, nDpConf, nFail, opSpawn, hist,
                   callerErr>>
    /\ UNCHANGED <<srcPos, stage, nSrcRel, nDpStop, hdmi, ct>>

\* "self._thread.release()" after the loop; the thread function returns.
\* Releasing an unlocked lock raises RuntimeError.
W_release(w) ==
    /\ workers[w].pc = "release"
    /\ IF lock
       THEN lock' = FALSE /\ SetW(w, [workers[w] EXCEPT !.pc = "done"])
       ELSE UNCHANGED lock /\ SetW(w, [workers[w] EXCEPT !.pc = "crash"])
    /\ UNCHANGED <<vdma, started, pause, running, videoIn, dpOn, vdmaOn, cpc,
                   tieFrom, nSrcConf, nDpConf, nFail, opSpawn, hist, callerErr>>
    /\ UNCHANGED <<srcPos, sinkLog, stage, nSrcRel, nDpStop, hdmi, ct>>

----------------------------------------------------------------------------
(* Calls made on the stream object itself (FileDisplayPort.pause / tie),   *)
(* taken on a stream that is not started.                                  *)

\* The application calls self._source.pause() directly.
Stream_pause ==
    /\ cpc = "idle"
    /\ PipelineState \in {"Idle", "Stopped"}
    /\ hist' = [op |-> "stream_pause", pre |-> PipelineState]
    /\ opSpawn' = 0
    /\ callerErr' = "none"
    /\ cpc' = "src_pause"
    /\ UNCHANGED <<vdma, started, pause, running, videoIn, lock, dpOn, vdmaOn,
                   tieFrom, workers, nSrcConf, nDpConf, nFail>>
    /\ UNCHANGED <<srcPos, sinkLog, stage, nSrcRel, nDpStop, hdmi, ct>>

\* The application calls self._source.tie(dp) directly.
Stream_tie ==
    /\ cpc = "idle"
    /\ PipelineState \in {"Idle", "Stopped"}
    /\ hist' = [op |-> "stream_tie", pre |-> PipelineState]
    /\ opSpawn' = 0
    /\ callerErr' = "none"
    /\ cpc' = "tie"
    /\ tieFrom' = "direct"
    /\ UNCHANGED <<vdma, started, pause, running, videoIn, lock, dpOn, vdmaOn,
                   workers, nSrcConf, nDpConf, nFail>>
    /\ UNCHANGED <<srcPos, sinkLog, stage, nSrcRel, nDpStop, hdmi, ct>>

----------------------------------------------------------------------------
(* Failure of thread creation                                              *)

\* tie(): start_new_thread raises; "except Exception:" prints the traceback
\* and raises ValueError("error starting new thread"), which leaves tie() and
\* PSVideo.start.  The lock stays acquired and the flag set.
tie_spawn_error ==
    /\ cpc = "tie_spawn"
    /\ cpc' = "idle"
    /\ callerErr' = "ValueError"
    /\ UNCHANGED <<vdma, started, pause, running, videoIn, lock, dpOn, vdmaOn,
                   tieFrom, workers, nSrcConf, nDpConf, nFail, opSpawn, hist>>
    /\ UNCHANGED <<srcPos, sinkLog, stage, nSrcRel, nDpStop, hdmi, ct>>

----------------------------------------------------------------------------
(* Constructors: the filename checks                                       *)

\* The state of the PSVideo engine modelled above.
core == <<vdma, started, pause, running, videoIn, lock, dpOn, vdmaOn, cpc,
          tieFrom, workers, nSrcConf, nDpConf, nFail, opSpawn, hist, callerErr,
          srcPos, sinkLog, stage, nSrcRel, nDpStop>>

\* Types of the value passed as filename.
ArgTypes == {"int", "bool", "str", "float"}

Classes == {"VideoFile", "Webcam", "FileDisplayPort", "WebcamDisplayPort",
            "PSVideo"}

\* isinstance(filename, int): bool is a subclass of int.
IsInt(t) == t \in {"int", "bool"}

\* isinstance(filename, str)
IsStr(t) == t = "str"

\* What the constructor call gives: the class of the stream object built
\* (for PSVideo the class of its _source), or the exception raised.
CtorResult(cls, t) ==
    IF cls \in {"VideoFile", "FileDisplayPort"}
    THEN IF ~IsStr(t) THEN "ValueError" ELSE cls
    ELSE IF cls \in {"Webcam", "WebcamDisplayPort"}
    THEN IF ~IsInt(t) THEN "ValueError" ELSE cls
    ELSE IF IsInt(t) THEN "WebcamDisplayPort"
    ELSE IF IsStr(t) THEN "FileDisplayPort"
    ELSE "ValueError"

Construct ==
    /\ \E cls \in Classes, t \in ArgTypes :
           ct' = [cls |-> cls, arg |-> t, result |-> CtorResult(cls, t)]
    /\ UNCHANGED <<core, hdmi>>

----------------------------------------------------------------------------
(* HDMIVideo                                                               *)

\* Values passed as source: members of the Enum VSource, or the str the
\* docstring names.
EnumHDMI == [kind |-> "VSource", name |-> "HDMI"]
EnumMIPI == [kind |-> "VSource", name |-> "MIPI"]
EnumOpenCV == [kind |-> "VSource", name |-> "OpenCV"]
StrHDMI == [kind |-> "str", name |-> "HDMI"]

SourceArgs == {EnumHDMI, EnumMIPI, EnumOpenCV, StrHDMI}

Devices == {"Pynq-ZU", "Pynq-Z2"}

\* Python ==: an Enum member equals only itself, never a str.
PyEq(a, b) == a.kind = b.kind /\ a.name = b.name

\* HDMIVideo.__init__(ol, source)
HDMIVideo_init ==
    /\ \E dev \in Devices, source \in SourceArgs :
        hdmi' =
          IF source \notin {EnumHDMI, EnumMIPI}
          THEN [NoHdmi EXCEPT !.obj = "ValueError", !.dev = dev,
                              !.source = source]
          ELSE IF dev # "Pynq-ZU" /\ ~PyEq(source, StrHDMI)
          THEN [NoHdmi EXCEPT !.obj = "ValueError", !.dev = dev,
                              !.source = source]
          ELSE [NoHdmi EXCEPT
                  !.obj = "ok", !.dev = dev, !.source = source,
                  !.source_in = IF dev = "Pynq-ZU"
                                THEN IF PyEq(source, StrHDMI) THEN "hdmi_in"
                                     ELSE "mipi"
                                ELSE "hdmi_in"]
    /\ UNCHANGED <<core, ct>>

\* HDMIVideo.start: configure the input (no mode for HDMI, 1280x720x24
\* otherwise), configure the output with the input's mode, start both, tie.
HDMIVideo_start ==
    /\ hdmi.obj = "ok"
    /\ hdmi' = IF ~Truthy(hdmi.started)
               THEN [hdmi EXCEPT
                       !.inMode = IF PyEq(hdmi.source, StrHDMI) THEN "detected"
                                  ELSE "1280x720x24",
                       !.outMode = IF PyEq(hdmi.source, StrHDMI) THEN "detected"
                                   ELSE "1280x720x24",
                       !.tied = TRUE,
                       !.started = "True"]
               ELSE hdmi
    /\ UNCHANGED <<core, ct>>

\* HDMIVideo.stop: close the output and the input.
HDMIVideo_stop ==
    /\ hdmi.obj = "ok"
    /\ hdmi' = IF Truthy(hdmi.started)
               THEN [hdmi EXCEPT !.tied = FALSE, !.started = "False"]
               ELSE hdmi
    /\ UNCHANGED <<core, ct>>

\* A call the worker makes on the Source, the BufferStage or the Sink.
WorkerDeviceCall(w) ==
    \/ W_read(w)
    \/ W_configure(w)
    \/ W_vdma_write(w)
    \/ W_vdma_read(w)
    \/ W_dp_write(w)

WorkerStep(w) ==
    \/ W_head(w)
    \/ WorkerDeviceCall(w)
    \/ W_release(w)

WorkerNext == \E w \in WorkerIds : WorkerStep(w)

\* The application calling the facade (one thread, one call at a time).
CallerCall ==
    \/ PSVideo_start
    \/ PSVideo_stop
    \/ PSVideo_pause
    \/ Stream_pause
    \/ Stream_tie

\* The statements of a call in progress.
CallerCont ==
    \/ DisplayPort_configure
    \/ FileDisplayPort_start
    \/ tie_check
    \/ tie_acquire
    \/ tie_running
    \/ tie_spawn
    \/ PSVideo_start_ret
    \/ VideoFile_stop
    \/ VideoFile_stop_wait
    \/ VideoFile_stop_release
    \/ FileDisplayPort_stop
    \/ PSVideo_stop_ret
    \/ VideoFile_pause
    \/ PSVideo_pause_ret

Next == CallerCall \/ CallerCont \/ WorkerNext

Spec == Init /\ [][Next]_vars

\* Both threads are scheduled: a call in progress and a live worker each
\* take their next step when it stays possible.
FairSpec == Spec /\ WF_vars(CallerCont) /\ WF_vars(WorkerNext)

\* The engine when thread creation can fail, with the constructor calls.
FaultNext == Next \/ tie_spawn_error \/ Construct

FaultSpec == Init /\ [][FaultNext]_vars

\* HDMIVideo objects and the constructors on their own.
DeviceNext == HDMIVideo_init \/ HDMIVideo_start \/ HDMIVideo_stop \/ Construct

DeviceSpec == Init /\ [][DeviceNext]_vars

----------------------------------------------------------------------------
(* Properties                                                              *)

\* stop() has passed its wait for the loop exit, or has returned.
StopPastWait ==
    \/ cpc \in {"src_release", "vdma_stop", "dp_stop"}
    \/ cpc = "idle" /\ PipelineState = "Stopped"

\* C1: clean shutdown ordering.  Whenever stop() is releasing the Source,
\* stopping the BufferStage or the Sink, or has returned, no worker thread is
\* alive, so none can make a further Source, BufferStage or Sink call.
C1_CleanShutdown == StopPastWait => AliveWorkers = {}

\* stop() issued on a Running engine whose worker went through the retry
\* path has seen the worker return and is about to release the Source.
C1_Witness ==
    /\ cpc = "src_release"
    /\ hist = [op |-> "stop", pre |-> "Running"]
    /\ nFail > 0
    /\ \E w \in WorkerIds : workers[w].pc = "done"

\* C2: the lock taken by tie() is released by the worker on every exit path,
\* so a held lock always has a live worker, or a tie() between its acquire
\* and its thread creation, behind it.
C2_LockHasOwner ==
    lock => (AliveWorkers # {} \/ cpc \in {"tie_running", "tie_spawn"})

\* C3: with both threads scheduled and every device call returning, a stop()
\* that has started eventually returns.
C3_StopReturns == (cpc = "src_stop") ~> (cpc = "idle")

\* C4: a start() issued in a Stopped state never has to wait for the lock,
\* creates at most one worker, and returns with the Sink and the Source
\* configured once each, one worker created and the engine Running.
C4_RestartAfterStop ==
    (hist = [op |-> "start", pre |-> "Stopped"]) =>
        /\ cpc = "tie_acquire" => ~lock
        /\ opSpawn <= 1
        /\ cpc = "idle" =>
               /\ opSpawn = 1
               /\ nDpConf = 1
               /\ nFail = 0 => nSrcConf = 1
               /\ PipelineState = "Running"

\* C5: a frame read never makes a 6th attempt; every failed attempt is
\* followed by one reconfigure; the fatal error comes after exactly 5 reads
\* and 5 reconfigures; and once a worker has failed fatally no worker makes
\* any further Source, BufferStage or Sink call.
C5_Counts ==
    \A w \in WorkerIds :
        /\ workers[w].i <= 5
        /\ workers[w].pc = "read" => workers[w].rc = workers[w].i
        /\ workers[w].pc = "configure" => workers[w].rc + 1 = workers[w].i
        /\ workers[w].pc = "fatal" => workers[w].i = 5 /\ workers[w].rc = 5

C5_RetryBound ==
    /\ []C5_Counts
    /\ [][(\E w \in WorkerIds : workers[w].pc = "fatal")
            => ~(\E w \in WorkerIds : WorkerDeviceCall(w))]_vars

\* A worker has died of the fatal error after its 5th reconfigure.
C5_Witness ==
    \E w \in WorkerIds :
        workers[w].pc = "fatal" /\ workers[w].i = 5 /\ workers[w].rc = 5

\* C6: once a worker has failed fatally and the call in progress (if any)
\* has returned, the engine is Stopped with the running flag false, the
\* error is held where the caller can read it, and the lock is free, so that
\* a start() can configure and tie again.
C6_FatalLeavesStopped ==
    (cpc = "idle" /\ \E w \in WorkerIds : workers[w].pc = "fatal") =>
        /\ PipelineState = "Stopped"
        /\ ~Truthy(running)
        /\ callerErr = "RuntimeError"
        /\ ~lock

\* C7: at most one worker thread is alive.
C7_OneWorker == Cardinality(AliveWorkers) <= 1

\* pause() immediately followed by start(): the second tie() has created
\* its thread.
C7_Witness ==
    /\ hist = [op |-> "start", pre |-> "Paused"]
    /\ cpc = "tie_ret"
    /\ Cardinality(AliveWorkers) = 1

\* pause() has returned and no other call has been made since.
PausedIdle == cpc = "idle" /\ PipelineState = "Paused"

C9_IdempotentNoOps ==
    /\ [][PSVideo_start /\ PipelineState = "Running" => UNCHANGED engine]_vars
    /\ [][PSVideo_pause /\ PipelineState = "Paused" => UNCHANGED engine]_vars
    /\ [][PSVideo_stop /\ PipelineState \in {"Idle", "Stopped"}
            => UNCHANGED engine]_vars

\* start() was called on a Running engine with its worker alive and returned.
C9_Witness ==
    /\ hist = [op |-> "start", pre |-> "Running"]
    /\ cpc = "idle"
    /\ Cardinality(AliveWorkers) = 1

\* C10: without transient read errors, a start() issued on a Paused engine
\* that has to wait for the lock waits for a worker that is leaving, and it
\* returns with exactly one worker alive, the engine Running, one thread
\* created, and Source and Sink configured once each since the initial start.
C10_PauseResume ==
    (hist = [op |-> "start", pre |-> "Paused"] /\ nFail = 0) =>
        /\ (cpc = "tie_acquire" /\ lock) =>
               Cardinality(AliveWorkers) = 1 /\ ~Truthy(running)
        /\ cpc = "idle" =>
               /\ nSrcConf = 1
               /\ nDpConf = 1
               /\ opSpawn = 1
               /\ Cardinality(AliveWorkers) = 1
               /\ Truthy(running)
               /\ PipelineState = "Running"

\* The resuming start() has returned with no read error in the session.
C10_Witness ==
    /\ hist = [op |-> "start", pre |-> "Paused"]
    /\ nFail = 0
    /\ cpc = "idle"
    /\ PipelineState = "Running"

\* C11: while no read of the session has failed, the frames written to the
\* Sink are the Source's frames 1, 2, ... in order, none dropped, none twice,
\* and never more than the Source has delivered (direct and vdma path).
C11_InOrder ==
    nFail = 0 =>
        /\ Len(sinkLog) <= srcPos
        /\ \A k \in 1..Len(sinkLog) : sinkLog[k] = k

\* A session with a pause/resume cycle and no failed read has forwarded
\* at least two frames.
C11_Witness ==
    /\ nFail = 0
    /\ hist = [op |-> "start", pre |-> "Paused"]
    /\ Len(sinkLog) >= 2

\* C12: whenever stop() has returned (first or repeated stop(), with or
\* without pause() calls before it), the capture's release and the Sink's
\* stop have each been called exactly once since the start.
C12_ReleasedOnce ==
    (cpc = "idle" /\ PipelineState = "Stopped") => nSrcRel = 1 /\ nDpStop = 1

\* A second stop() has returned.
C12_Witness ==
    /\ hist = [op |-> "stop", pre |-> "Stopped"]
    /\ cpc = "idle"
    /\ nSrcRel = 1
    /\ nDpStop = 1

\* The calls of one iteration that go to the vdma or the Sink.
IsRelayCall(c) == c \in {"vdma.write", "vdma.read", "dp.write"}

RelayOrder == <<"vdma.write", "vdma.read", "dp.write">>

\* C15: with a vdma, the calls of every iteration are Source calls ending in
\* a successful read, then the write into the stage, the read from its read
\* channel, and the Sink write, in this order; the frame written to the Sink
\* is the one read back from the stage.
C15_RelayOrder ==
    vdma => \A w \in WorkerIds :
        LET c == workers[w].calls
            rest == SelectSeq(c, IsRelayCall)
        IN /\ Len(rest) <= 3
           /\ \A j \in 1..Len(rest) : rest[j] = RelayOrder[j]
           /\ \A a, b \in 1..Len(c) :
                  (~IsRelayCall(c[a]) /\ IsRelayCall(c[b])) => a < b
           /\ rest # <<>> => c[Len(c) - Len(rest)] = "src.read"
           /\ (workers[w].pc = "dp_write" /\ nFail = 0) => workers[w].d = srcPos

\* An iteration with one retry has gone through the stage to the Sink.
C15_Witness ==
    /\ vdma
    /\ \E w \in WorkerIds :
           workers[w].calls = <<"src.read", "src.configure", "src.read",
                                "vdma.write", "vdma.read", "dp.write">>

C17_Leaving ==
    \A w \in WorkerIds :
        workers[w].pc = "release" =>
            /\ workers[w].f = 0 /\ workers[w].d = 0
            /\ stage = <<>>
            /\ nFail = 0 => Len(sinkLog) = srcPos

C17_IterationBoundary ==
    /\ []C17_Leaving
    /\ [][\A w \in WorkerIds :
            (workers'[w].pc = "release" /\ workers[w].pc # "release")
                => workers[w].pc = "head"]_vars

\* pause() cleared the flag and the worker has left its loop after
\* forwarding every frame it read.
C17_Witness ==
    /\ hist.op = "pause"
    /\ nFail = 0
    /\ srcPos >= 1
    /\ \E w \in WorkerIds : workers[w].pc = "release"

\* The attributes of the facade and the stream, the lock, the threads and
\* the device call counts.
fields == <<started, pause, running, videoIn, lock, dpOn, vdmaOn, workers,
            nSrcConf, nDpConf, nFail, srcPos, sinkLog, stage, nSrcRel,
            nDpStop>>

\* C13 as stated: pause() on an engine never started ends with the
\* not-started error, at the facade as well as on the stream.
C13_PauseNotStarted ==
    (cpc = "idle" /\ hist.pre = "Idle" /\ hist.op \in {"pause", "stream_pause"})
        => callerErr = "SystemError"

\* C13 amended: on an engine never started, VideoFile.pause raises the
\* not-started error (SystemError) while PSVideo.pause returns without any
\* error; neither changes any state.
C13_PauseNotStartedAmended ==
    /\ []((cpc = "idle" /\ hist = [op |-> "stream_pause", pre |-> "Idle"])
            => callerErr = "SystemError")
    /\ []((cpc = "idle" /\ hist = [op |-> "pause", pre |-> "Idle"])
            => callerErr = "none")
    /\ [][(hist'.pre = "Idle" /\ hist'.op \in {"pause", "stream_pause"})
            => UNCHANGED fields]_vars

\* VideoFile.pause was called on a stream never started and has raised.
C13_Witness ==
    /\ cpc = "idle"
    /\ hist = [op |-> "stream_pause", pre |-> "Idle"]
    /\ callerErr = "SystemError"

\* C19: tie() on a stream that is not started (never started, or stopped)
\* ends with the not-started error and changes nothing: the lock, the
\* running flag, the threads and every other attribute stay as they were.
C19_TieNotStarted ==
    /\ []((cpc = "idle" /\ hist.op = "stream_tie") => callerErr = "SystemError")
    /\ [][hist'.op = "stream_tie" => UNCHANGED fields]_vars

\* tie() was called on a stopped stream and has raised.
C19_Witness ==
    /\ cpc = "idle"
    /\ hist = [op |-> "stream_tie", pre |-> "Stopped"]
    /\ callerErr = "SystemError"
    /\ ~lock
    /\ ~Truthy(running)

\* C14: the file variants raise ValueError exactly for a filename that is
\* not a str and the camera variants exactly for one that is not an int;
\* PSVideo wires WebcamDisplayPort for an int, FileDisplayPort for a str and
\* raises ValueError otherwise; and no call made after construction (start,
\* tie, the worker) ends with ValueError.
C14_CtorChecks ==
    /\ ct.cls \in {"VideoFile", "FileDisplayPort"} =>
           (ct.result = "ValueError" <=> ct.arg # "str")
    /\ ct.cls \in {"Webcam", "WebcamDisplayPort"} =>
           (ct.result = "ValueError" <=> ct.arg \notin {"int", "bool"})
    /\ ct.cls = "PSVideo" =>
           ct.result = IF ct.arg \in {"int", "bool"} THEN "WebcamDisplayPort"
                       ELSE IF ct.arg = "str" THEN "FileDisplayPort"
                       ELSE "ValueError"

C14_InvalidArgument == C14_CtorChecks /\ callerErr # "ValueError"

\* C18: an HDMIVideo built with VSource.HDMI reads from hdmi_in and start()
\* configures it without a mode; built with VSource.MIPI on a Pynq-ZU it
\* reads from the MIPI device, configured 1280x720x24; on another device
\* VSource.HDMI is accepted and VSource.MIPI raises ValueError.
C18_SourceSelection ==
    /\ (hdmi.obj = "ok" /\ hdmi.source = EnumHDMI) =>
           /\ hdmi.source_in = "hdmi_in"
           /\ Truthy(hdmi.started) => hdmi.inMode = "detected"
    /\ (hdmi.dev = "Pynq-ZU" /\ hdmi.source = EnumMIPI) =>
           /\ hdmi.obj = "ok"
           /\ hdmi.source_in = "mipi"
           /\ Truthy(hdmi.started) => hdmi.inMode = "1280x720x24"
    /\ (hdmi.dev = "Pynq-Z2" /\ hdmi.source = EnumHDMI) => hdmi.obj = "ok"
    /\ (hdmi.dev = "Pynq-Z2" /\ hdmi.source = EnumMIPI) =>
           hdmi.obj = "ValueError"

====
